---- MODULE Spec2Model ----
(***************************************************************************)
(* Model of rkyv/src/ser/serializers.rs: BufferSerializer (a serializer    *)
(* over a fixed byte buffer) and WriteSerializer (a serializer over an     *)
(* io::Write destination).                                                 *)
(*                                                                         *)
(* usize is modelled as arithmetic modulo 2^W.  `self.pos + n` panics on   *)
(* overflow when the crate is built with overflow checks (debug profile)   *)
(* and wraps otherwise (release profile); overflow_checks is that choice.  *)
(* A slice never holds more than isize::MAX bytes, so buffers and written  *)
(* byte strings are at most IsizeMax long.                                 *)
(***************************************************************************)
EXTENDS Integers, Sequences, FiniteSets, TLC

\* ---- bounds ----
W == 3            \* width of usize in bits
MaxCap == 3       \* longest buffer handed to BufferSerializer
MaxLen == 2       \* longest byte string handed to write
MaxChunk == 2     \* most bytes a destination accepts per io::Write::write
MaxDelivered == 3 \* most bytes a destination receives in one behaviour

RECURSIVE Pow2(_)
Pow2(n) == IF n = 0 THEN 1 ELSE 2 * Pow2(n - 1)

UsizeMod == Pow2(W)
UsizeMax == UsizeMod - 1
IsizeMax == Pow2(W - 1) - 1
Usize == 0..UsizeMax
\* The code moves bytes and never looks at their values: two values are
\* enough to tell any two bytes of a buffer apart.
Byte == {0, 1}

Min(a, b) == IF a < b THEN a ELSE b

SeqsUpTo(S, n) == UNION {[1..m -> S] : m \in 0..n}
Buffers == SeqsUpTo(Byte, Min(MaxCap, IsizeMax))
Slices == SeqsUpTo(Byte, Min(MaxLen, IsizeMax))

VARIABLES
    inner,            \* BufferSerializer.inner, the byte buffer
    pos,              \* BufferSerializer.pos
    overflow_checks,  \* TRUE: usize overflow panics; FALSE: it wraps
    state,            \* "live", "panicked", "aborted" or "consumed"
    start_in_range,   \* whether the serializer was constructed with a
                      \* position <= the length of its buffer
    call,             \* the last call: operation, arguments, pre-state, result,
                      \* and whether it came right after a successful seek
    written,          \* while every call so far was a successful write on a
                      \* serializer made by new: the bytes written, in order,
                      \* and the buffer the serializer was made with
    overflowed,       \* whether some write or pad was called with
                      \* pos + count > usize::MAX
    reference,        \* the buffer the serializer was made with, overlaid
                      \* with the bytes of each write that returned Ok, at
                      \* the position the write was called at
    w_inner,          \* WriteSerializer.inner, the io::Write destination
    w_pos,            \* WriteSerializer.pos
    w_state,          \* "live", "panicked" or "consumed"
    w_call,           \* the last call on the WriteSerializer
    w_written         \* while the serializer was made by new and every call
                      \* so far was a write the destination took whole: the
                      \* bytes of those writes, in order

bufvars == <<inner, pos, state, start_in_range, call, written, overflowed,
            reference>>
wvars == <<w_inner, w_pos, w_state, w_call, w_written>>
vars == <<inner, pos, overflow_checks, state, start_in_range, call, written,
          overflowed, reference,
          w_inner, w_pos, w_state, w_call, w_written>>

\* ---- results ----
Ok == [kind |-> "Ok", pos |-> 0, bytes_needed |-> 0, archive_len |-> 0,
       seek_position |-> 0]
Overflow(p, n, l) ==
    [kind |-> "Overflow", pos |-> p, bytes_needed |-> n, archive_len |-> l,
     seek_position |-> 0]
SoughtPastEnd(t, l) ==
    [kind |-> "SoughtPastEnd", pos |-> 0, bytes_needed |-> 0,
     archive_len |-> l, seek_position |-> t]
Panic == [kind |-> "panic", pos |-> 0, bytes_needed |-> 0, archive_len |-> 0,
          seek_position |-> 0]
Abort == [kind |-> "abort", pos |-> 0, bytes_needed |-> 0, archive_len |-> 0,
          seek_position |-> 0]
NoResult == [kind |-> "none", pos |-> 0, bytes_needed |-> 0,
             archive_len |-> 0, seek_position |-> 0]

\* ---- usize addition: a + b ----
AddOverflows(a, b) == a + b > UsizeMax
WrappingAdd(a, b) == (a + b) % UsizeMod

\* ---- ptr::copy_nonoverlapping(bytes, inner.as_mut_ptr().add(p), len) ----
\* The offsets from the start of the buffer that the copy targets.
CopyTargets(p, bytes) == {p + i - 1 : i \in 1..Len(bytes)}

\* The buffer after the copy; a target address that wrapped around the
\* address space lands at offset (p + i - 1) mod 2^W.
CopyNonoverlapping_NoAdd(buf, p, bytes) ==
    [j \in 1..Len(buf) |-> IF j <= Len(bytes) THEN bytes[j] ELSE buf[j]]
CopyNonoverlapping_OneMore(buf, p, bytes) ==
    [j \in 1..Len(buf) |->
        IF p < j /\ j <= p + Len(bytes) THEN bytes[j - p]
        ELSE IF Len(bytes) > 0 /\ j = p + Len(bytes) + 1 THEN bytes[Len(bytes)]
        ELSE buf[j]]
CopyNonoverlapping(buf, p, bytes) ==
    [j \in 1..Len(buf) |->
        IF \E i \in 1..Len(bytes) : (p + i - 1) % UsizeMod = j - 1
        THEN bytes[CHOOSE i \in 1..Len(bytes) : (p + i - 1) % UsizeMod = j - 1]
        ELSE buf[j]]

Untracked == [ok |-> FALSE, bytes |-> <<>>, base |-> <<>>]

\* buf with bytes laid over offsets p .. p + len(bytes) - 1
Overlay(buf, p, bytes) ==
    [j \in 1..Len(buf) |->
        IF p < j /\ j <= p + Len(bytes) THEN bytes[j - p] ELSE buf[j]]

\* What a call leaves behind: the buffer, the position, whether the
\* serializer is still usable, the value returned and the offsets copied to.
Outcome(buf, p, st, res, targets) ==
    [inner |-> buf, pos |-> p, state |-> st, ret |-> res, copied |-> targets]

\* `if end_pos > archive_len` of write
WriteOverflows_OffByOne(end_pos, archive_len) == end_pos > archive_len + 1
WriteOverflows(end_pos, archive_len) == end_pos > archive_len
\* `if end_pos > archive_len` of pad
PadOverflows_OffByOne(end_pos, archive_len) == end_pos > archive_len + 1
PadOverflows(end_pos, archive_len) == end_pos > archive_len
\* `if pos > len` of seek
SeekPastEnd_Inclusive(target, len) == target >= len
SeekPastEnd(target, len) == target > len

\* ---- BufferSerializer::write ----
\* The outcomes of write(bytes) on a serializer with buffer buf at position p.
BufWrite(buf, p, bytes, checks) ==
    LET archive_len == Len(buf)
        end_pos == WrappingAdd(p, Len(bytes))
        targets == CopyTargets(p, bytes)
    IN
    IF AddOverflows(p, Len(bytes)) /\ checks
    THEN \* attempt to add with overflow
         {Outcome(buf, p, "panicked", Panic, {})}
    ELSE IF WriteOverflows(end_pos, archive_len)
    THEN {Outcome(buf, p, "live", Overflow(p, Len(bytes), archive_len), {})}
    ELSE IF targets \subseteq 0..(archive_len - 1)
    THEN {Outcome(CopyNonoverlapping(buf, p, bytes), end_pos, "live", Ok,
                  targets)}
    ELSE \* the copy leaves the buffer: undefined behaviour; it either lands
         \* on the wrapped addresses or the process is killed
         {Outcome(CopyNonoverlapping(buf, p, bytes), end_pos, "live", Ok,
                  targets),
          Outcome(buf, p, "aborted", Abort, targets)}

\* ---- BufferSerializer::pad ----
BufPad(buf, p, padding, checks) ==
    LET archive_len == Len(buf)
        end_pos == WrappingAdd(p, padding)
    IN
    IF AddOverflows(p, padding) /\ checks
    THEN {Outcome(buf, p, "panicked", Panic, {})}
    ELSE IF PadOverflows(end_pos, archive_len)
    THEN {Outcome(buf, p, "live", Overflow(p, padding, archive_len), {})}
    ELSE {Outcome(buf, end_pos, "live", Ok, {})}

\* ---- BufferSerializer::seek ----
BufSeek(buf, p, target) ==
    LET len == Len(buf) IN
    IF SeekPastEnd(target, len)
    THEN {Outcome(buf, p, "live", SoughtPastEnd(target, len), {})}
    ELSE {Outcome(buf, target, "live", Ok, {})}

\* The serializer takes the outcome out of a call op(bytes / n).
Returns(op, bytes, n, out) ==
    /\ inner' = out.inner
    /\ pos' = out.pos
    /\ state' = out.state
    /\ call' = [op |-> op, bytes |-> bytes, n |-> n, pos0 |-> pos,
                inner0 |-> inner, ret |-> out.ret, copied |-> out.copied,
                after_seek |-> (call.op = "seek" /\ call.ret = Ok)]

\* ---- BufferSerializer::new / with_pos ----
InitBuf ==
    /\ inner \in Buffers
    /\ pos \in Usize
    /\ start_in_range = (pos <= Len(inner))
    /\ overflow_checks \in BOOLEAN
    /\ state = "live"
    /\ call = [op |-> "with_pos", bytes |-> <<>>, n |-> pos, pos0 |-> pos,
               inner0 |-> inner, ret |-> NoResult, copied |-> {},
               after_seek |-> FALSE]
    /\ written = IF pos = 0 THEN [ok |-> TRUE, bytes |-> <<>>, base |-> inner]
                  ELSE Untracked
    /\ overflowed = FALSE
    /\ reference = inner

\* ---- BufferSerializer::pos ----
Pos_ArchiveLen ==
    /\ state = "live"
    /\ Returns("pos", <<>>, Len(inner), Outcome(inner, pos, "live", Ok, {}))
    /\ UNCHANGED <<start_in_range, written, overflowed, reference>>
Pos ==
    /\ state = "live"
    /\ Returns("pos", <<>>, pos, Outcome(inner, pos, "live", Ok, {}))
    /\ UNCHANGED <<start_in_range, written, overflowed, reference>>

Write ==
    /\ state = "live"
    /\ \E bytes \in Slices :
        \E out \in BufWrite(inner, pos, bytes, overflow_checks) :
            /\ Returns("write", bytes, Len(bytes), out)
            /\ written' = IF written.ok /\ out.ret = Ok
                                        /\ out.copied \subseteq 0..(Len(inner) - 1)
                           THEN [written EXCEPT !.bytes = @ \o bytes]
                           ELSE Untracked
            /\ overflowed' = (overflowed \/ AddOverflows(pos, Len(bytes)))
            /\ reference' = IF out.ret = Ok
                             THEN Overlay(reference, pos, bytes)
                             ELSE reference
    /\ UNCHANGED start_in_range

Pad ==
    /\ state = "live"
    /\ \E padding \in Usize :
        \E out \in BufPad(inner, pos, padding, overflow_checks) :
            /\ Returns("pad", <<>>, padding, out)
            /\ overflowed' = (overflowed \/ AddOverflows(pos, padding))
    /\ written' = Untracked
    /\ UNCHANGED <<start_in_range, reference>>

Seek ==
    /\ state = "live"
    /\ \E target \in Usize :
        \E out \in BufSeek(inner, pos, target) :
            Returns("seek", <<>>, target, out)
    /\ written' = Untracked
    /\ UNCHANGED <<start_in_range, overflowed, reference>>

\* ---- BufferSerializer::into_inner ----
IntoInner ==
    /\ state = "live"
    /\ Returns("into_inner", inner, 0, Outcome(inner, pos, "consumed", Ok, {}))
    /\ UNCHANGED <<start_in_range, written, overflowed, reference>>

\* ---- the io::Write (+ io::Seek) destination of a WriteSerializer ----
\* delivered: the bytes the destination accepted, in the order it accepted
\* them; off: the offset at which it receives its next byte; k: the most
\* bytes it accepts in one call of io::Write::write.
IoErrors == {"Interrupted", "Other"}
IoOk == [kind |-> "Ok", error |-> "none"]
IoErr(e) == [kind |-> "Err", error |-> e]
IoPanic == [kind |-> "panic", error |-> "none"]
IoNone == [kind |-> "none", error |-> "none"]

\* io::Write::write(buf): Ok(n) with n <= len(buf) bytes taken from the
\* front of buf.
DestAccepts(dest, bytes) == Min(dest.k, Len(bytes))
DestWrite(dest, bytes) ==
    [dest EXCEPT !.delivered = @ \o SubSeq(bytes, 1, DestAccepts(dest, bytes)),
                 !.off = @ + DestAccepts(dest, bytes)]
\* io::Seek::seek(SeekFrom::Start(offset))
DestSeek(dest, offset) == [dest EXCEPT !.off = offset]

\* The last call on the WriteSerializer: operation, arguments, pre-state,
\* the value returned, the number of calls made to the destination, the
\* bytes it accepted and the error it reported.
WCall(op, bytes, n, res, ncalls, accepted, reported) ==
    [op |-> op, bytes |-> bytes, n |-> n, pos0 |-> w_pos, inner0 |-> w_inner,
     ret |-> res, calls |-> ncalls, accepted |-> accepted,
     reported |-> reported]

WUntracked == [ok |-> FALSE, bytes |-> <<>>]

\* `?` on an io::Result inside a function returning io::Error
Propagate_Other(e) == IoErr("Other")
Propagate(e) == IoErr(e)

\* `self.pos += n`, when the addition does not panic
AdvancePos_Assign(p, n) == n
AdvancePos(p, n) == WrappingAdd(p, n)

\* `self.pos = offset`
SeekPos_Relative(p, offset) == WrappingAdd(p, offset)
SeekPos(p, offset) == offset

NoBuffer ==
    /\ inner = <<>>
    /\ pos = 0
    /\ state = "consumed"
    /\ start_in_range = TRUE
    /\ call = [op |-> "none", bytes |-> <<>>, n |-> 0, pos0 |-> 0,
               inner0 |-> <<>>, ret |-> NoResult, copied |-> {},
               after_seek |-> FALSE]
    /\ written = Untracked
    /\ overflowed = FALSE
    /\ reference = <<>>

NoWriter ==
    /\ w_inner = [delivered |-> <<>>, off |-> 0, k |-> 1]
    /\ w_pos = 0
    /\ w_state = "consumed"
    /\ w_call = [op |-> "none", bytes |-> <<>>, n |-> 0, pos0 |-> 0,
                 inner0 |-> [delivered |-> <<>>, off |-> 0, k |-> 1],
                 ret |-> IoNone, calls |-> 0, accepted |-> 0,
                 reported |-> "none"]
    /\ w_written = WUntracked

\* ---- WriteSerializer::new / with_pos ----
\* The writer is at the position the serializer is told it is at.
InitWrite ==
    /\ overflow_checks \in BOOLEAN
    /\ \E s \in Usize, k \in 1..MaxChunk :
        /\ w_inner = [delivered |-> <<>>, off |-> s, k |-> k]
        /\ w_pos = s
        /\ w_call = [op |-> "with_pos", bytes |-> <<>>, n |-> s, pos0 |-> s,
                     inner0 |-> [delivered |-> <<>>, off |-> s, k |-> k],
                     ret |-> IoNone, calls |-> 0, accepted |-> 0,
                     reported |-> "none"]
        /\ w_written = IF s = 0 THEN [ok |-> TRUE, bytes |-> <<>>]
                        ELSE WUntracked
    /\ w_state = "live"
    /\ NoBuffer

\* ---- WriteSerializer::pos ----
WPos ==
    /\ w_state = "live"
    /\ w_call' = WCall("pos", <<>>, w_pos, IoOk, 0, 0, "none")
    /\ UNCHANGED <<w_inner, w_pos, w_state, w_written>>

\* ---- WriteSerializer::write: self.pos += self.inner.write(bytes)? ----
WWrite ==
    /\ w_state = "live"
    /\ \E bytes \in Slices :
        \/ \E e \in IoErrors :
            /\ w_call' = WCall("write", bytes, Len(bytes), Propagate(e), 1, 0, e)
            /\ w_written' = WUntracked
            /\ UNCHANGED <<w_inner, w_pos, w_state>>
        \/ LET n == DestAccepts(w_inner, bytes) IN
            /\ Len(w_inner.delivered) + n <= MaxDelivered
            /\ w_inner' = DestWrite(w_inner, bytes)
            /\ IF AddOverflows(w_pos, n) /\ overflow_checks
               THEN /\ w_state' = "panicked"
                    /\ w_call' = WCall("write", bytes, Len(bytes), IoPanic, 1,
                                       n, "none")
                    /\ w_written' = WUntracked
                    /\ UNCHANGED w_pos
               ELSE /\ w_pos' = AdvancePos(w_pos, n)
                    /\ w_call' = WCall("write", bytes, Len(bytes), IoOk, 1, n,
                                       "none")
                    /\ w_written' =
                        IF w_written.ok /\ Len(bytes) <= w_inner.k
                        THEN [w_written EXCEPT !.bytes = @ \o bytes]
                        ELSE WUntracked
                    /\ UNCHANGED w_state

\* ---- WriteSerializer::seek ----
WSeek ==
    /\ w_state = "live"
    /\ \E offset \in Usize :
        \/ \E e \in IoErrors :
            /\ w_call' = WCall("seek", <<>>, offset, Propagate(e), 1, 0, e)
            /\ UNCHANGED <<w_inner, w_pos>>
        \/ /\ w_inner' = DestSeek(w_inner, offset)
           /\ w_pos' = SeekPos(w_pos, offset)
           /\ w_call' = WCall("seek", <<>>, offset, IoOk, 1, 0, "none")
    /\ w_written' = WUntracked
    /\ UNCHANGED w_state

\* ---- WriteSerializer::into_inner ----
WIntoInner ==
    /\ w_state = "live"
    /\ w_state' = "consumed"
    /\ w_call' = WCall("into_inner", <<>>, 0, IoOk, 0, 0, "none")
    /\ UNCHANGED <<w_inner, w_pos, w_written>>

\* ---- specifications ----
Init == InitBuf /\ NoWriter

Next ==
    \/ Pos /\ UNCHANGED <<overflow_checks, wvars>>
    \/ Write /\ UNCHANGED <<overflow_checks, wvars>>
    \/ Pad /\ UNCHANGED <<overflow_checks, wvars>>
    \/ Seek /\ UNCHANGED <<overflow_checks, wvars>>
    \/ IntoInner /\ UNCHANGED <<overflow_checks, wvars>>

Spec == Init /\ [][Next]_vars

NextWrite ==
    \/ WPos /\ UNCHANGED <<overflow_checks, bufvars>>
    \/ WWrite /\ UNCHANGED <<overflow_checks, bufvars>>
    \/ WSeek /\ UNCHANGED <<overflow_checks, bufvars>>
    \/ WIntoInner /\ UNCHANGED <<overflow_checks, bufvars>>

SpecWrite == InitWrite /\ [][NextWrite]_vars

\* Either serializer.
InitAny == Init \/ InitWrite

NextAny == Next \/ NextWrite

SpecAny == InitAny /\ [][NextAny]_vars

TypeOK ==
    /\ inner \in Buffers
    /\ pos \in Usize
    /\ w_pos \in Usize

\* ======================= properties =======================
IsBufCall(op) == call.op = op
InBounds(p, n, buf) == p + n <= Len(buf)
Slice(buf, p, n) == SubSeq(buf, p + 1, p + n)

\* C1: write(b) on a buffer of capacity C at position p succeeds iff
\* p + len(b) <= C; on success the position is p + len(b) and
\* storage[p..p+len(b)] = b.
C1_WriteContract ==
    IsBufCall("write") =>
        /\ (call.ret.kind = "Ok") <=> InBounds(call.pos0, call.n, call.inner0)
        /\ call.ret.kind = "Ok" =>
            /\ pos = call.pos0 + call.n
            /\ Slice(inner, call.pos0, call.n) = call.bytes

\* C2: a write(b) on the WriteSerializer that returns Ok, over a destination
\* that takes at most k < len(b) bytes per call, has delivered all of b in
\* order and advanced the position by len(b).
C2_ShortWriteDeliversAll ==
    (/\ w_call.op = "write"
     /\ w_call.ret.kind = "Ok"
     /\ Len(w_call.bytes) > w_call.inner0.k) =>
        /\ w_inner.delivered = w_call.inner0.delivered \o w_call.bytes
        /\ w_pos = w_call.pos0 + Len(w_call.bytes)

\* C3: a write(b) or pad(n) that would end past the capacity returns
\* Overflow {pos: the position before the call, bytes_needed: len(b) or n,
\* archive_len: len(storage)}, changes no byte and leaves the position.
C3_OverflowError ==
    (/\ IsBufCall("write") \/ IsBufCall("pad")
     /\ ~InBounds(call.pos0, call.n, call.inner0)) =>
        /\ call.ret = Overflow(call.pos0, call.n, Len(call.inner0))
        /\ inner = call.inner0
        /\ pos = call.pos0

\* C4: seek(target) with target <= C returns Ok and sets the position to
\* target whatever it was; with target > C it returns SoughtPastEnd {target,
\* C} and leaves the position; the buffer is unchanged either way.
C4_SeekContract ==
    IsBufCall("seek") =>
        /\ inner = call.inner0
        /\ state = "live"
        /\ IF call.n <= Len(call.inner0)
           THEN call.ret = Ok /\ pos = call.n
           ELSE /\ call.ret = SoughtPastEnd(call.n, Len(call.inner0))
                /\ pos = call.pos0

\* a seek backwards from a position that was out of range, and a seek to
\* one past the end, both succeeded
C4_Witness ==
    /\ IsBufCall("seek")
    /\ call.ret = Ok
    /\ call.n = Len(inner)
    /\ call.n > 0
    /\ call.pos0 > Len(inner)

\* C5 (as stated): 0 <= position <= len(storage) between operations, for a
\* serializer made by new or by with_pos with any start.
C5_PositionInRange == 0 <= pos /\ pos <= Len(inner)

\* C5 (amended): 0 <= position <= len(storage) between operations, for a
\* serializer made by new or by with_pos with start <= len(storage).
C5_PositionInRangeFromValidStart ==
    start_in_range => (0 <= pos /\ pos <= Len(inner))

\* a pad up to the end of the buffer succeeded on a serializer made with a
\* start in range
C5_Witness ==
    /\ start_in_range
    /\ IsBufCall("pad")
    /\ call.ret = Ok
    /\ call.n > 0
    /\ pos = Len(inner)

\* C6: every byte copy of write targets only offsets 0 <= i < len(storage).
C6_CopyInsideBuffer ==
    \A i \in call.copied : 0 <= i /\ i < Len(call.inner0)

\* C7: an out-of-bounds write or pad returns Overflow and an out-of-bounds
\* seek returns SoughtPastEnd, for every usize position and argument; none
\* of them succeeds or aborts.
C7_TypedErrorOnBoundsViolation ==
    /\ (/\ IsBufCall("write") \/ IsBufCall("pad")
        /\ ~InBounds(call.pos0, call.n, call.inner0))
           => call.ret.kind = "Overflow"
    /\ (IsBufCall("seek") /\ call.n > Len(call.inner0))
           => call.ret.kind = "SoughtPastEnd"

\* C8: pad(count) succeeds iff p + count <= C; on success the position is
\* p + count and every byte of the buffer keeps its value.
C8_PadContract ==
    IsBufCall("pad") =>
        /\ (call.ret.kind = "Ok") <=> InBounds(call.pos0, call.n, call.inner0)
        /\ call.ret.kind = "Ok" =>
            /\ pos = call.pos0 + call.n
            /\ inner = call.inner0

\* C9: the position of the WriteSerializer equals the offset at which the
\* destination receives its next byte, after any writes and seeks.
C9_PositionIsDestinationOffset == w_pos = w_inner.off

\* C10: after writes b1..bn from position 0 that all fit, storage[0..sum] is
\* concat(b1..bn), and buffer and position are those of one write of
\* concat(b1..bn) on a fresh serializer over the same buffer.
C10_RoundTrip ==
    written.ok =>
        /\ pos = Len(written.bytes)
        /\ Slice(inner, 0, Len(written.bytes)) = written.bytes
        /\ \A out \in BufWrite(written.base, 0, written.bytes, overflow_checks) :
            /\ out.ret = Ok
            /\ out.inner = inner
            /\ out.pos = pos

\* at least two non-empty writes went into the buffer
C10_Witness ==
    /\ written.ok
    /\ IsBufCall("write")
    /\ Len(call.bytes) > 0
    /\ Len(written.bytes) > Len(call.bytes)
    /\ inner # written.base

\* C11: after a successful seek(t) followed by a successful write(b),
\* storage[t..t+len(b)] = b, every byte outside [t, t+len(b)) keeps the value
\* it had before the write, and the position is t + len(b).
C11_BackpatchBySeek ==
    (IsBufCall("write") /\ call.after_seek /\ call.ret = Ok) =>
        /\ Slice(inner, call.pos0, call.n) = call.bytes
        /\ Len(inner) = Len(call.inner0)
        /\ \A j \in 1..Len(inner) :
            (j <= call.pos0 \/ j > call.pos0 + call.n) => inner[j] = call.inner0[j]
        /\ pos = call.pos0 + call.n

\* a write after a seek replaced a byte in front of bytes that stay as they
\* were
C11_Witness ==
    /\ IsBufCall("write")
    /\ call.after_seek
    /\ call.ret = Ok
    /\ call.n > 0
    /\ pos < Len(inner)
    /\ inner # call.inner0
    /\ inner[Len(inner)] = 1

\* C12: on a WriteSerializer made by new over a destination that takes every
\* byte offered, after writes b1..bn the position is the number of bytes
\* written and the destination into_inner returns holds exactly
\* concat(b1..bn).
C12_GrowableDestination ==
    w_written.ok =>
        /\ w_pos = Len(w_written.bytes)
        /\ w_inner.delivered = w_written.bytes
        /\ Len(w_inner.delivered) = w_pos

\* into_inner after at least two writes taken whole
C12_Witness ==
    /\ w_written.ok
    /\ w_call.op = "into_inner"
    /\ w_state = "consumed"
    /\ Len(w_written.bytes) > MaxLen

\* C13: when the destination reports an error during write, the serializer
\* returns that error as it is, has called the destination once, and the
\* position has moved by the number of bytes the destination accepted in
\* that call before the error.
C13_WriteErrorPassThrough ==
    (w_call.op = "write" /\ w_call.reported # "none") =>
        /\ w_call.ret = IoErr(w_call.reported)
        /\ w_call.calls = 1
        /\ w_pos = w_call.pos0 + w_call.accepted
        /\ w_inner.delivered =
              w_call.inner0.delivered \o SubSeq(w_call.bytes, 1, w_call.accepted)
        /\ w_state = "live"

\* a non-empty write failed with Interrupted after an earlier write went
\* through
C13_Witness ==
    /\ w_call.op = "write"
    /\ w_call.reported = "Interrupted"
    /\ w_call.n > 0
    /\ Len(w_inner.delivered) > 0
    /\ w_pos > 0

\* C14: seek(target) on the WriteSerializer repositions the destination to
\* target; when the destination accepts, the position is target; when it
\* reports an error, that error is returned as it is and the position keeps
\* its value.
C14_StreamSeek ==
    w_call.op = "seek" =>
        /\ w_call.calls = 1
        /\ IF w_call.reported = "none"
           THEN /\ w_call.ret = IoOk
                /\ w_inner.off = w_call.n
                /\ w_pos = w_call.n
           ELSE /\ w_call.ret = IoErr(w_call.reported)
                /\ w_pos = w_call.pos0
                /\ w_inner = w_call.inner0

\* a seek backwards went through after bytes were delivered
C14_Witness ==
    /\ w_call.op = "seek"
    /\ w_call.ret = IoOk
    /\ w_call.n < w_call.pos0
    /\ w_call.n > 0
    /\ Len(w_inner.delivered) > 0

\* C15: every successful write or pad increases the position by exactly the
\* number of bytes asked for, strictly when that number is not 0, so that the
\* position never decreases except through seek.
C15_PositionAdvances ==
    (/\ IsBufCall("write") \/ IsBufCall("pad")
     /\ call.ret = Ok) =>
        /\ pos = call.pos0 + call.n
        /\ pos >= call.pos0
        /\ call.n > 0 => pos > call.pos0

\* C17: on a serializer made by with_pos with start > len(storage), every
\* write and every pad, of any length, returns Overflow and changes no byte,
\* as long as no seek has brought the position back in range.
C17_OutOfRangeStartRejects ==
    (/\ IsBufCall("write") \/ IsBufCall("pad")
     /\ ~start_in_range
     /\ call.pos0 > Len(call.inner0)) =>
        /\ call.ret.kind = "Overflow"
        /\ inner = call.inner0

\* C18: seek(len(storage)) succeeds; at that position a write of no bytes and
\* pad(0) succeed and leave the position, and a write or pad of one or more
\* bytes returns Overflow.
C18_OnePastEnd ==
    /\ (IsBufCall("seek") /\ call.n = Len(call.inner0)) =>
          (call.ret = Ok /\ pos = Len(inner))
    /\ (/\ IsBufCall("write") \/ IsBufCall("pad")
        /\ call.pos0 = Len(call.inner0)) =>
          IF call.n = 0
          THEN call.ret = Ok /\ pos = Len(inner)
          ELSE call.ret.kind = "Overflow"

\* C19: on a serializer made by new, or by with_pos with start <=
\* len(storage), 0 <= position <= len(storage) holds after every sequence of
\* write, pad and seek calls in which no pos + count exceeded usize::MAX,
\* whether the calls succeeded or failed.
C19_PositionInRangeWithoutOverflow ==
    (start_in_range /\ ~overflowed) => (0 <= pos /\ pos <= Len(inner))

\* a write filled the buffer up to its end, with no overflow so far
C19_Witness ==
    /\ start_in_range
    /\ ~overflowed
    /\ IsBufCall("write")
    /\ call.ret = Ok
    /\ call.n > 0
    /\ call.pos0 > 0
    /\ pos = Len(inner)

\* C20: the buffer into_inner returns is the buffer the serializer was made
\* with, overlaid with the bytes of each successful write at the position the
\* write was called at, later writes over earlier ones; pads, seeks and failed
\* calls change no byte and the length never changes.
C20_IntoInnerIsReference ==
    IsBufCall("into_inner") =>
        /\ call.bytes = reference
        /\ Len(call.bytes) = Len(reference)

\* C16: pos() always succeeds and has no side effect, on both serializers:
\* it returns the position, the same value however often it is called
\* between other calls, and leaves position, buffer and destination as they
\* were.
C16_PosIsPure ==
    /\ IsBufCall("pos") =>
        /\ call.ret = Ok
        /\ call.n = call.pos0
        /\ pos = call.pos0
        /\ inner = call.inner0
        /\ state = "live"
    /\ w_call.op = "pos" =>
        /\ w_call.ret = IoOk
        /\ w_call.n = w_call.pos0
        /\ w_pos = w_call.pos0
        /\ w_inner = w_call.inner0
        /\ w_state = "live"

\* pos() called after a write moved the position
C16_Witness ==
    /\ IsBufCall("pos")
    /\ written.ok
    /\ Len(written.bytes) > 0
    /\ call.n = Len(written.bytes)
    /\ call.n < Len(inner)

====
